---------------------------- MODULE Spec2Model ----------------------------
(***************************************************************************)
(* Model of the halo2 multiplication example (Multiplication/src/main.rs): *)
(* MultiplicationChip (configure, construct, assign, expose_public),       *)
(* MultiplicationCircuit (without_witnesses, configure, synthesize) and    *)
(* the MockProver run of test_multiplication_circuit.                      *)
(*                                                                         *)
(* The calls the program makes into halo2_proofs (ConstraintSystem,        *)
(* the single-chip layouter behind SimpleFloorPlanner, dev::MockProver)    *)
(* are modelled by what those calls do to the constraint system and to the *)
(* prover's tables; each such definition names the call site it belongs to.*)
(***************************************************************************)
EXTENDS Integers, Sequences, FiniteSets, TLC

(***************************************************************************)
(* Bounds of the model.                                                    *)
(***************************************************************************)
\* The field F is modelled by the prime field of order Primes[FieldIdx].
FieldIdx == 5
\* MockProver::run is tried with every k in 0..MaxK.
MaxK == 4
\* SpecConfigure: columns of each kind a builder may already hold.
MaxPrior == 3
\* SpecConfigure: how many times configure is called on one builder.
MaxConfigure == 2

\* The k the program passes to MockProver::run.
ExampleK == 4

Primes == <<2, 3, 5, 7, 11, 13, 17, 19, 23>>
Modulus == Primes[FieldIdx]
F == 0 .. (Modulus - 1)

\* Field arithmetic of F: FieldExt (from, mul, add, neg, zero).
FromU64(x) == x % Modulus
FMul(x, y) == (x * y) % Modulus
FAdd(x, y) == (x + y) % Modulus
FNeg(x) == (Modulus - x) % Modulus
FZero == FromU64(0)

Max(x, y) == IF x >= y THEN x ELSE y
RECURSIVE Pow2(_)
Pow2(e) == IF e = 0 THEN 1 ELSE 2 * Pow2(e - 1)
RECURSIVE SeqMax(_, _)
SeqMax(s, dflt) == IF s = <<>> THEN dflt
                   ELSE IF Len(s) = 1 THEN s[1]
                   ELSE Max(s[1], SeqMax(Tail(s), dflt))
SeqContains(s, x) == \E i \in 1 .. Len(s) : s[i] = x

(***************************************************************************)
(* Handles: Column<Advice>, Column<Instance>, Selector.                    *)
(***************************************************************************)
AdviceColumn(i) == [column_type |-> "Advice", index |-> i]
InstanceColumn(i) == [column_type |-> "Instance", index |-> i]
SelectorHandle(i) == [selector |-> i, simple |-> TRUE]
RotationCur == 0

(***************************************************************************)
(* ConstraintSystem<F>: the builder MultiplicationChip::configure mutates. *)
(***************************************************************************)
PriorCS(nAdv, nInst, nSel) ==
    [ num_advice_columns   |-> nAdv,
      num_instance_columns |-> nInst,
      num_selectors        |-> nSel,
      num_advice_queries   |-> [i \in 1 .. nAdv |-> 0],
      advice_queries       |-> <<>>,
      instance_queries     |-> <<>>,
      permutation          |-> <<>>,
      gates                |-> <<>> ]
DefaultCS == PriorCS(0, 0, 0)

\* meta.advice_column()
advice_column(meta) ==
    [ meta |-> [meta EXCEPT !.num_advice_columns = @ + 1,
                            !.num_advice_queries = Append(@, 0)],
      column |-> AdviceColumn(meta.num_advice_columns) ]
\* meta.selector()
selector(meta) ==
    [ meta |-> [meta EXCEPT !.num_selectors = @ + 1],
      selector |-> SelectorHandle(meta.num_selectors) ]
\* meta.instance_column()
instance_column(meta) ==
    [ meta |-> [meta EXCEPT !.num_instance_columns = @ + 1],
      column |-> InstanceColumn(meta.num_instance_columns) ]

\* The query of (column, rotation) is registered once.
query_any_index(meta, column, at) ==
    IF column.column_type = "Advice"
    THEN IF SeqContains(meta.advice_queries, <<column, at>>) THEN meta
         ELSE [meta EXCEPT !.advice_queries = Append(@, <<column, at>>),
                           !.num_advice_queries[column.index + 1] = @ + 1]
    ELSE IF SeqContains(meta.instance_queries, <<column, at>>) THEN meta
         ELSE [meta EXCEPT !.instance_queries = Append(@, <<column, at>>)]
\* meta.enable_equality(column)
enable_equality(meta, column) ==
    LET q == query_any_index(meta, column, RotationCur)
    IN IF SeqContains(q.permutation, column) THEN q
       ELSE [q EXCEPT !.permutation = Append(@, column)]

\* Expressions built in the gate closure: s * (a * b - c).
QuerySelector(sel) == <<"Selector", sel>>
QueryAdvice(column, at) == <<"Advice", column, at>>
Product(l, r) == <<"Product", l, r>>
Sum(l, r) == <<"Sum", l, r>>
Negated(e) == <<"Negated", e>>
Sub(l, r) == Sum(l, Negated(r))

\* The polynomial of the "multiplication" gate over the given handles.
GatePoly(s, a, b, c) ==
    Product(QuerySelector(s),
            Sub(Product(QueryAdvice(a, RotationCur), QueryAdvice(b, RotationCur)),
                QueryAdvice(c, RotationCur)))

\* meta.create_gate("multiplication", |meta| { ... vec![s * (a * b - c)] })
create_gate(meta, s, a, b, c) ==
    LET q1 == query_any_index(meta, a, RotationCur)
        q2 == query_any_index(q1, b, RotationCur)
        q3 == query_any_index(q2, c, RotationCur)
        gate == [ name |-> "multiplication",
                  polys |-> <<GatePoly(s, a, b, c)>>,
                  queried_selectors |-> <<s>>,
                  queried_cells |-> << <<a, RotationCur>>, <<b, RotationCur>>,
                                       <<c, RotationCur>> >> ]
    IN [q3 EXCEPT !.gates = Append(@, gate)]

\* A configure that forgets enable_equality(instance).
configureNoInstanceEquality(meta) ==
    LET ra == advice_column(meta)
        rb == advice_column(ra.meta)
        rc == advice_column(rb.meta)
        rs == selector(rc.meta)
        ri == instance_column(rs.meta)
        e3 == enable_equality(enable_equality(enable_equality(ri.meta,
                  ra.column), rb.column), rc.column)
    IN [ meta |-> create_gate(e3, rs.selector, ra.column, rb.column, rc.column),
         config |-> [ a |-> ra.column, b |-> rb.column, c |-> rc.column,
                      selector |-> rs.selector, instance |-> ri.column ] ]

\* A configure that reuses the builder's first columns instead of allocating.
configureReuse(meta) ==
    IF meta.num_advice_columns >= 3 /\ meta.num_selectors >= 1
       /\ meta.num_instance_columns >= 1
    THEN LET e4 == enable_equality(enable_equality(enable_equality(enable_equality(
                       meta, AdviceColumn(0)), AdviceColumn(1)), AdviceColumn(2)),
                       InstanceColumn(0))
         IN [ meta |-> IF meta.gates = <<>>
                       THEN create_gate(e4, SelectorHandle(0), AdviceColumn(0),
                                        AdviceColumn(1), AdviceColumn(2))
                       ELSE e4,
              config |-> [ a |-> AdviceColumn(0), b |-> AdviceColumn(1),
                           c |-> AdviceColumn(2), selector |-> SelectorHandle(0),
                           instance |-> InstanceColumn(0) ] ]
    ELSE LET ra == advice_column(meta)
             rb == advice_column(ra.meta)
             rc == advice_column(rb.meta)
             rs == selector(rc.meta)
             ri == instance_column(rs.meta)
             e4 == enable_equality(enable_equality(enable_equality(enable_equality(
                       ri.meta, ra.column), rb.column), rc.column), ri.column)
         IN [ meta |-> create_gate(e4, rs.selector, ra.column, rb.column, rc.column),
              config |-> [ a |-> ra.column, b |-> rb.column, c |-> rc.column,
                           selector |-> rs.selector, instance |-> ri.column ] ]

\* MultiplicationChip::configure (and MultiplicationCircuit::configure, which
\* delegates to it): the builder after the call and the returned configuration.
configure(meta) ==
    LET ra == advice_column(meta)
        rb == advice_column(ra.meta)
        rc == advice_column(rb.meta)
        rs == selector(rc.meta)
        ri == instance_column(rs.meta)
        e1 == enable_equality(ri.meta, ra.column)
        e2 == enable_equality(e1, rb.column)
        e3 == enable_equality(e2, rc.column)
        e4 == enable_equality(e3, ri.column)
    IN [ meta |-> create_gate(e4, rs.selector, ra.column, rb.column, rc.column),
         config |-> [ a |-> ra.column, b |-> rb.column, c |-> rc.column,
                      selector |-> rs.selector, instance |-> ri.column ] ]

\* MultiplicationChip::construct
construct(config) == [config |-> config]


(***************************************************************************)
(* The layouter handed to synthesize: the single-chip layouter of          *)
(* SimpleFloorPlanner writing into MockProver's tables.                    *)
(***************************************************************************)
Unassigned == <<"Unassigned">>
Assigned(v) == <<"Assigned", v>>
Poison(i) == <<"Poison", i>>

\* cs.blinding_factors() and cs.minimum_rows(), read by MockProver::run.
blinding_factors(cs) == Max(3, SeqMax(cs.num_advice_queries, 1)) + 1 + 1
minimum_rows(cs) == blinding_factors(cs) + 1 + 1 + 1

EmptyLayouter ==
    [ k |-> 0, n |-> 0, usable_rows |-> 0, cs |-> DefaultCS,
      advice |-> <<>>, selectors |-> <<>>, instance |-> <<>>,
      regions |-> <<>>, columns |-> <<>>, copies |-> <<>>, faults |-> {} ]

\* The tables MockProver::run allocates before it synthesizes the circuit.
NewLayouter(kk, cs, inst, flt) ==
    LET n == Pow2(kk)
        usable == n - (blinding_factors(cs) + 1)
    IN [ k |-> kk, n |-> n, usable_rows |-> usable, cs |-> cs,
         advice |-> [c \in 0 .. cs.num_advice_columns - 1 |->
                        [r \in 0 .. n - 1 |->
                            IF r >= usable THEN Poison(r) ELSE Unassigned]],
         selectors |-> [s \in 0 .. cs.num_selectors - 1 |->
                          [r \in 0 .. n - 1 |-> FALSE]],
         instance |-> [c \in 0 .. Len(inst) - 1 |->
                         [r \in 0 .. n - 1 |->
                            IF r < Len(inst[c + 1]) THEN inst[c + 1][r + 1]
                            ELSE FZero]],
         regions |-> <<>>, columns |-> <<>>, copies |-> <<>>, faults |-> flt ]

Usable(lay, row) == row >= 0 /\ row < lay.usable_rows
Fail(lay, e) == [ok |-> FALSE, err |-> e, lay |-> lay, cell |-> <<>>]

\* Selector::enable(region, offset) inside a region starting at row start.
enable_selector(lay, ri, start, sel, offset) ==
    LET row == start + offset
    IN IF ~Usable(lay, row) THEN Fail(lay, "NotEnoughRowsAvailable")
       ELSE [ ok |-> TRUE, err |-> "",
              lay |-> [lay EXCEPT !.selectors[sel.selector][row] = TRUE,
                                  !.regions[ri].enabled_selectors =
                                      Append(@, <<sel, row>>)],
              cell |-> <<>> ]

\* region.assign_advice(column, offset, value) inside a region starting at start.
assign_advice(lay, ri, start, column, offset, value) ==
    LET row == start + offset
    IN IF ~Usable(lay, row) THEN Fail(lay, "NotEnoughRowsAvailable")
       ELSE IF column.index \notin DOMAIN lay.advice THEN Fail(lay, "BoundsFailure")
       ELSE [ ok |-> TRUE, err |-> "",
              lay |-> [lay EXCEPT !.advice[column.index][row] = Assigned(value),
                                  !.regions[ri].cells = Append(@, <<column, row>>)],
              cell |-> << [ value |-> value,
                            cell |-> [ region_index |-> ri - 1,
                                       row_offset |-> offset,
                                       column |-> column ] ] >> ]

RegionOp(lay, ri, start, o) ==
    IF o.op = "enable_selector"
    THEN enable_selector(lay, ri, start, o.column, o.offset)
    ELSE assign_advice(lay, ri, start, o.column, o.offset, o.value)

\* The region closure: each call is followed by `?`, the last call's result
\* is the closure's result.
RECURSIVE RunRegion(_, _, _, _, _)
RunRegion(lay, ri, start, ops, i) ==
    LET r == RegionOp(lay, ri, start, ops[i])
    IN IF ~r.ok \/ i = Len(ops) THEN r
       ELSE RunRegion(r.lay, ri, start, ops, i + 1)

ShapeColumns(ops) == {ops[i].column : i \in 1 .. Len(ops)}
ShapeRowCount(ops) == SeqMax([i \in 1 .. Len(ops) |-> ops[i].offset + 1], 0)
NextFree(lay, column) ==
    IF column \in DOMAIN lay.columns THEN lay.columns[column] ELSE 0
SetMax(S) == IF S = {} THEN 0 ELSE CHOOSE x \in S : \A y \in S : y <= x

\* layouter.assign_region(name, closure): the region is measured, placed at the
\* first row free in all of its columns, and then assigned.
assign_region(lay, ops) ==
    IF "assign_region" \in lay.faults THEN Fail(lay, "Synthesis")
    ELSE
    LET cols == ShapeColumns(ops)
        start == SetMax({NextFree(lay, c) : c \in cols})
        ri == Len(lay.regions) + 1
        entered == [lay EXCEPT !.regions =
                       Append(@, [ start |-> start, enabled_selectors |-> <<>>,
                                   cells |-> <<>> ])]
        r == RunRegion(entered, ri, start, ops, 1)
    IN IF ~r.ok THEN r
       ELSE [r EXCEPT !.lay.columns =
                [c \in (DOMAIN lay.columns) \cup cols |->
                    IF c \in cols THEN start + ShapeRowCount(ops)
                    ELSE lay.columns[c]]]

\* layouter.constrain_instance(cell, instance, row)
constrain_instance(lay, cell, inst, row) ==
    IF "constrain_instance" \in lay.faults THEN Fail(lay, "Synthesis")
    ELSE
    LET left_row == lay.regions[cell.region_index + 1].start + cell.row_offset
    IN IF ~Usable(lay, left_row) \/ ~Usable(lay, row)
       THEN Fail(lay, "NotEnoughRowsAvailable")
       ELSE IF ~SeqContains(lay.cs.permutation, cell.column)
               \/ ~SeqContains(lay.cs.permutation, inst)
       THEN Fail(lay, "ColumnNotInPermutation")
       ELSE [ ok |-> TRUE, err |-> "", cell |-> <<>>,
              lay |-> [lay EXCEPT !.copies =
                          Append(@, [ left_column |-> cell.column,
                                      left_row |-> left_row,
                                      right_column |-> inst,
                                      right_row |-> row ])] ]

(***************************************************************************)
(* MultiplicationChip::assign and MultiplicationChip::expose_public.       *)
(***************************************************************************)
EnableOp(sel, offset) == [op |-> "enable_selector", column |-> sel, offset |-> offset]
AdviceOp(column, offset, value) ==
    [op |-> "assign_advice", column |-> column, offset |-> offset, value |-> value]

\* An assign that stores a + b in column c.
assignSum(lay, config, a, b) ==
    assign_region(lay, << EnableOp(config.selector, 0),
                          AdviceOp(config.a, 0, a),
                          AdviceOp(config.b, 0, b),
                          AdviceOp(config.c, 0, FAdd(a, b)) >>)

\* An assign that lays the gate out on offset 1 instead of offset 0.
assignOffsetOne(lay, config, a, b) ==
    assign_region(lay, << EnableOp(config.selector, 1),
                          AdviceOp(config.a, 1, a),
                          AdviceOp(config.b, 1, b),
                          AdviceOp(config.c, 1, FMul(a, b)) >>)

\* An assign whose layout depends on the witness: a zero operand skips the gate.
assignSkipZero(lay, config, a, b) ==
    assign_region(lay,
        IF a = FZero
        THEN << AdviceOp(config.a, 0, a), AdviceOp(config.b, 0, b),
                AdviceOp(config.c, 0, FMul(a, b)) >>
        ELSE << EnableOp(config.selector, 0), AdviceOp(config.a, 0, a),
                AdviceOp(config.b, 0, b), AdviceOp(config.c, 0, FMul(a, b)) >>)

\* The calls of the region closure of assign, in order.
AssignOps(config, a, b) ==
    << EnableOp(config.selector, 0),
       AdviceOp(config.a, 0, a),
       AdviceOp(config.b, 0, b),
       AdviceOp(config.c, 0, FMul(a, b)) >>

\* MultiplicationChip::assign
assign(lay, config, a, b) == assign_region(lay, AssignOps(config, a, b))

\* An expose_public that binds nothing.
exposeNothing(lay, config, cell, row) ==
    [ok |-> TRUE, err |-> "", cell |-> <<>>, lay |-> lay]

\* An expose_public that binds the cell twice.
exposeTwice(lay, config, cell, row) ==
    LET r == constrain_instance(lay, cell.cell, config.instance, row)
    IN IF r.ok THEN constrain_instance(r.lay, cell.cell, config.instance, row) ELSE r

\* MultiplicationChip::expose_public
expose_public(lay, config, cell, row) ==
    constrain_instance(lay, cell.cell, config.instance, row)

\* A without_witnesses that clones the circuit.
withoutWitnessesClone(self) == self

\* MultiplicationCircuit::without_witnesses: Self::default()
without_witnesses(self) == [a |-> FZero, b |-> FZero]


(***************************************************************************)
(* MockProver::verify, behind prover.assert_satisfied().                   *)
(***************************************************************************)
Real(v) == <<"Real", v>>
PoisonValue == <<"Poisoned">>
IsReal(v) == v[1] = "Real"

LoadAdvice(lay, column, row) ==
    LET cv == lay.advice[column.index][row]
    IN IF cv[1] = "Assigned" THEN Real(cv[2])
       ELSE IF cv[1] = "Unassigned" THEN Real(FZero)
       ELSE PoisonValue

\* The value of a gate polynomial on one row of the tables.
RECURSIVE Eval(_, _, _)
Eval(e, lay, row) ==
    IF e[1] = "Selector"
    THEN IF lay.selectors[e[2].selector][row] THEN Real(FromU64(1)) ELSE Real(FZero)
    ELSE IF e[1] = "Advice"
    THEN LoadAdvice(lay, e[2], (row + lay.n + e[3]) % lay.n)
    ELSE IF e[1] = "Negated"
    THEN LET x == Eval(e[2], lay, row)
         IN IF IsReal(x) THEN Real(FNeg(x[2])) ELSE PoisonValue
    ELSE IF e[1] = "Sum"
    THEN LET x == Eval(e[2], lay, row)
             y == Eval(e[3], lay, row)
         IN IF IsReal(x) /\ IsReal(y) THEN Real(FAdd(x[2], y[2])) ELSE PoisonValue
    ELSE LET x == Eval(e[2], lay, row)
             y == Eval(e[3], lay, row)
         IN IF IsReal(x) /\ IsReal(y) THEN Real(FMul(x[2], y[2]))
            ELSE IF (IsReal(x) /\ x[2] = FZero) \/ (IsReal(y) /\ y[2] = FZero)
            THEN Real(FZero)
            ELSE PoisonValue

\* The cell value the permutation check reads at (column, row).
CellOf(lay, column, row) ==
    IF column.column_type = "Advice" THEN lay.advice[column.index][row]
    ELSE Assigned(lay.instance[column.index][row])

\* Cells a gate queries on a row where a region enabled its selector must have
\* been assigned in that region.
CellNotAssignedFailures(lay) ==
    { <<"CellNotAssigned", g, er[2]>> :
        <<g, er>> \in
          { x \in (1 .. Len(lay.cs.gates)) \X
                  UNION { { lay.regions[r].enabled_selectors[i] :
                              i \in 1 .. Len(lay.regions[r].enabled_selectors) } :
                          r \in 1 .. Len(lay.regions) } :
              /\ SeqContains(lay.cs.gates[x[1]].queried_selectors, x[2][1])
              /\ \E r \in 1 .. Len(lay.regions) :
                   /\ SeqContains(lay.regions[r].enabled_selectors, x[2])
                   /\ \E q \in 1 .. Len(lay.cs.gates[x[1]].queried_cells) :
                        LET qc == lay.cs.gates[x[1]].queried_cells[q]
                        IN ~SeqContains(lay.regions[r].cells,
                                        <<qc[1], (x[2][2] + lay.n + qc[2]) % lay.n>>) } }

\* Every polynomial of every gate must vanish on every usable row.
GateFailures(lay) ==
    { <<IF IsReal(Eval(lay.cs.gates[x[1]].polys[x[2]], lay, x[3]))
        THEN "ConstraintNotSatisfied" ELSE "ConstraintPoisoned", x[1], x[3]>> :
        x \in { y \in (1 .. Len(lay.cs.gates)) \X {1} \X (0 .. lay.usable_rows - 1) :
                  /\ y[2] <= Len(lay.cs.gates[y[1]].polys)
                  /\ Eval(lay.cs.gates[y[1]].polys[y[2]], lay, y[3]) # Real(FZero) } }

\* Cells bound by a copy constraint must hold equal values.
PermutationFailures(lay) ==
    { <<"Permutation", i, lay.copies[i].left_row>> :
        i \in { j \in 1 .. Len(lay.copies) :
                  CellOf(lay, lay.copies[j].left_column, lay.copies[j].left_row)
                  # CellOf(lay, lay.copies[j].right_column, lay.copies[j].right_row) } }

verify(lay) ==
    CellNotAssignedFailures(lay) \cup GateFailures(lay) \cup PermutationFailures(lay)

(***************************************************************************)
(* State.                                                                  *)
(***************************************************************************)
VARIABLES
    witness,        \* the MultiplicationCircuit { a, b } the caller built
    circuit,        \* the circuit that is synthesized (witness, or its
                    \* without_witnesses() copy)
    stripped,       \* TRUE once without_witnesses() replaced the circuit
    k,              \* the k given to MockProver::run
    public_inputs,  \* the public-input sequence given to MockProver::run
    faults,         \* layouter calls that return Err (none under MockProver)
    meta,           \* the ConstraintSystem builder
    configs,        \* the configurations configure has returned, in order
    layouter,       \* the prover's tables and the layouter's bookkeeping
    chip,           \* the chip synthesize constructed (<<>> before)
    c_cell,         \* the cell assign returned (<<>> before)
    steps,          \* the steps synthesize has executed, with their outcomes
    synth_result,   \* what synthesize returned ("" while it has not)
    pc,             \* where the run stands
    result,         \* what the run / the verification reported
    failures        \* the failures MockProver::verify found

vars == << witness, circuit, stripped, k, public_inputs, faults, meta, configs,
           layouter, chip, c_cell, steps, synth_result, pc, result, failures >>

LayouterOps == {"assign_region", "constrain_instance"}

InitCommon ==
    /\ witness \in [a : F, b : F]
    /\ circuit = witness
    /\ stripped = FALSE
    /\ k \in 0 .. MaxK
    /\ meta = DefaultCS
    /\ configs = <<>>
    /\ layouter = EmptyLayouter
    /\ chip = <<>>
    /\ c_cell = <<>>
    /\ steps = <<>>
    /\ synth_result = ""
    /\ pc = "start"
    /\ result = ""
    /\ failures = {}

\* test_multiplication_circuit generalised over a, b, the public input and k.
Init ==
    /\ InitCommon
    /\ public_inputs \in [1 .. 1 -> F]
    /\ faults = {}

\* The run of the test (public input c = a * b) with an arbitrary Layouter,
\* whose calls may fail.
InitSynth ==
    /\ InitCommon
    /\ public_inputs = <<FMul(witness.a, witness.b)>>
    /\ faults \in SUBSET LayouterOps

\* The framework takes the witness-free copy of the circuit (key generation).
WithoutWitnesses ==
    /\ pc = "start"
    /\ ~stripped
    /\ circuit' = without_witnesses(circuit)
    /\ stripped' = TRUE
    /\ UNCHANGED << witness, k, public_inputs, faults, meta, configs, layouter,
                    chip, c_cell, steps, synth_result, pc, result, failures >>

\* A run that only asks for the rows the circuit itself assigns.
run_checks_rows_used(n, cs, instance) ==
    IF n < 1 THEN "NotEnoughRowsAvailable"
    ELSE IF Len(instance) # cs.num_instance_columns THEN "InvalidInstances"
    ELSE ""

\* The checks of MockProver::run before it allocates its tables ("" passes).
run_checks(n, cs, instance) ==
    IF n < minimum_rows(cs) THEN "NotEnoughRowsAvailable"
    ELSE IF Len(instance) # cs.num_instance_columns THEN "InvalidInstances"
    ELSE IF \E i \in 1 .. Len(instance) :
               Len(instance[i]) > n - (blinding_factors(cs) + 1)
    THEN "InstanceTooLarge"
    ELSE ""

\* MockProver::run up to the call of synthesize: configure on a fresh builder,
\* the size checks, the tables.
MockProverRun ==
    /\ pc = "start"
    /\ LET n == Pow2(k)
           r == configure(DefaultCS)
           cs == r.meta
           instance == <<public_inputs>>
       IN /\ meta' = cs
          /\ configs' = <<r.config>>
          /\ IF run_checks(n, cs, instance) # ""
             THEN /\ result' = run_checks(n, cs, instance)
                  /\ pc' = "failed"
                  /\ UNCHANGED layouter
             ELSE /\ layouter' = NewLayouter(k, cs, instance, faults)
                  /\ pc' = "synthesize"
                  /\ UNCHANGED result
    /\ UNCHANGED << witness, circuit, stripped, k, public_inputs, faults, chip,
                    c_cell, steps, synth_result, failures >>

Step(op, outcome) == [op |-> op, outcome |-> outcome]

\* synthesize: let chip = MultiplicationChip::construct(config);
SynthesizeConstruct ==
    /\ pc = "synthesize"
    /\ chip' = <<construct(configs[1])>>
    /\ steps' = Append(steps, Step("construct", "Ok"))
    /\ pc' = "assign"
    /\ UNCHANGED << witness, circuit, stripped, k, public_inputs, faults, meta,
                    configs, layouter, c_cell, synth_result, result, failures >>

\* A synthesize that calls assign again when it fails.
SynthesizeAssignRetry ==
    /\ pc = "assign"
    /\ LET r == assign(layouter, chip[1].config, circuit.a, circuit.b)
       IN /\ layouter' = r.lay
          /\ steps' = Append(steps, Step("assign", IF r.ok THEN "Ok" ELSE r.err))
          /\ c_cell' = IF r.ok THEN r.cell ELSE c_cell
          /\ pc' = IF r.ok THEN "expose" ELSE "assign"
          /\ UNCHANGED << synth_result, result >>
    /\ UNCHANGED << witness, circuit, stripped, k, public_inputs, faults, meta,
                    configs, chip, failures >>

\* synthesize: let c = chip.assign(layouter.namespace(..), self.a, self.b)?;
SynthesizeAssign ==
    /\ pc = "assign"
    /\ LET r == assign(layouter, chip[1].config, circuit.a, circuit.b)
       IN /\ layouter' = r.lay
          /\ steps' = Append(steps, Step("assign", IF r.ok THEN "Ok" ELSE r.err))
          /\ IF r.ok
             THEN /\ c_cell' = r.cell
                  /\ pc' = "expose"
                  /\ UNCHANGED << synth_result, result >>
             ELSE /\ synth_result' = r.err
                  /\ result' = r.err
                  /\ pc' = "failed"
                  /\ UNCHANGED c_cell
    /\ UNCHANGED << witness, circuit, stripped, k, public_inputs, faults, meta,
                    configs, chip, failures >>

\* synthesize: chip.expose_public(layouter.namespace(..), c, 0)?; Ok(())
\* after which MockProver::run returns the prover.
SynthesizeExpose ==
    /\ pc = "expose"
    /\ LET r == expose_public(layouter, chip[1].config, c_cell[1], 0)
       IN /\ layouter' = r.lay
          /\ steps' = Append(steps, Step("expose_public", IF r.ok THEN "Ok" ELSE r.err))
          /\ synth_result' = IF r.ok THEN "Ok" ELSE r.err
          /\ pc' = IF r.ok THEN "constructed" ELSE "failed"
          /\ result' = IF r.ok THEN result ELSE r.err
    /\ UNCHANGED << witness, circuit, stripped, k, public_inputs, faults, meta,
                    configs, chip, c_cell, failures >>

\* prover.assert_satisfied()
AssertSatisfied ==
    /\ pc = "constructed"
    /\ failures' = verify(layouter)
    /\ result' = IF verify(layouter) = {} THEN "satisfied" ELSE "unsatisfied"
    /\ pc' = "verified"
    /\ UNCHANGED << witness, circuit, stripped, k, public_inputs, faults, meta,
                    configs, layouter, chip, c_cell, steps, synth_result >>

Next ==
    \/ WithoutWitnesses
    \/ MockProverRun
    \/ SynthesizeConstruct
    \/ SynthesizeAssign
    \/ SynthesizeExpose
    \/ AssertSatisfied

Spec == Init /\ [][Next]_vars
SpecSynth == InitSynth /\ [][Next]_vars

(***************************************************************************)
(* configure called repeatedly on one builder, which may already hold      *)
(* columns allocated by other chips.                                       *)
(***************************************************************************)
InitConfigure ==
    /\ meta \in { PriorCS(i, j, l) : i \in 0 .. MaxPrior, j \in 0 .. MaxPrior,
                                     l \in 0 .. MaxPrior }
    /\ configs = <<>>
    /\ pc = "builder"
    /\ witness = [a |-> FZero, b |-> FZero]
    /\ circuit = witness
    /\ stripped = FALSE
    /\ k = ExampleK
    /\ public_inputs = <<FZero>>
    /\ faults = {}
    /\ layouter = EmptyLayouter
    /\ chip = <<>>
    /\ c_cell = <<>>
    /\ steps = <<>>
    /\ synth_result = ""
    /\ result = ""
    /\ failures = {}

\* MultiplicationCircuit::configure(meta)
Configure ==
    /\ pc = "builder"
    /\ Len(configs) < MaxConfigure
    /\ LET r == configure(meta)
       IN /\ meta' = r.meta
          /\ configs' = Append(configs, r.config)
    /\ UNCHANGED << witness, circuit, stripped, k, public_inputs, faults, layouter,
                    chip, c_cell, steps, synth_result, pc, result, failures >>

NextConfigure == Configure

SpecConfigure == InitConfigure /\ [][NextConfigure]_vars


(***************************************************************************)
(* Properties.                                                             *)
(***************************************************************************)
Synthesized == pc \in {"constructed", "verified"}
AfterAssign == pc \in {"expose", "constructed", "verified"}
ProductOf(c) == FMul(c.a, c.b)
EnabledRows(lay) ==
    { <<s, r>> \in (DOMAIN lay.selectors) \X (0 .. lay.n - 1) : lay.selectors[s][r] }
AssignedCells(lay) ==
    { <<c, r>> \in (DOMAIN lay.advice) \X (0 .. lay.n - 1) :
        lay.advice[c][r][1] = "Assigned" }

\* C1 (completeness): whenever the public input is the field product of the
\* synthesized circuit's a and b, the run with the program's k is constructed,
\* and a constructed run has the gate holding on every selector-enabled row,
\* the cell bound to instance row 0 equal to the public value, and
\* assert_satisfied finding no failure.
C1_Completeness ==
    public_inputs = <<ProductOf(circuit)>> =>
        /\ k = ExampleK => pc # "failed"
        /\ Synthesized =>
             /\ \A er \in EnabledRows(layouter) :
                  \A g \in 1 .. Len(meta.gates) :
                     Eval(meta.gates[g].polys[1], layouter, er[2]) = Real(FZero)
             /\ \A i \in 1 .. Len(layouter.copies) :
                  /\ layouter.copies[i].right_row = 0
                  /\ CellOf(layouter, layouter.copies[i].left_column,
                            layouter.copies[i].left_row)
                     = Assigned(public_inputs[1])
             /\ verify(layouter) = {}
        /\ pc = "verified" => failures = {} /\ result = "satisfied"

C1_Witness ==
    /\ pc = "verified"
    /\ result = "satisfied"
    /\ ~stripped
    /\ k = ExampleK
    /\ circuit = [a |-> FromU64(3), b |-> FromU64(4)]
    /\ public_inputs = <<FromU64(12)>>

\* C2 (public-input soundness): whenever the public input differs from the
\* field product of the synthesized circuit's a and b, no run reports
\* satisfied, and a verified run reports unsatisfied with a failure of the
\* binding to the instance column.
C2_Soundness ==
    public_inputs[1] # ProductOf(circuit) =>
        /\ result # "satisfied"
        /\ k = ExampleK => pc # "failed"
        /\ Synthesized => \E f \in verify(layouter) : f[1] = "Permutation"
        /\ pc = "verified" =>
             /\ result = "unsatisfied"
             /\ \E f \in failures : f[1] = "Permutation"

C2_Witness ==
    /\ pc = "verified"
    /\ result = "unsatisfied"
    /\ ~stripped
    /\ k = ExampleK
    /\ circuit = [a |-> FromU64(3), b |-> FromU64(4)]
    /\ public_inputs = <<FromU64(11)>>

ShiftConfig(c) ==
    [ a |-> AdviceColumn(c.a.index + 3),
      b |-> AdviceColumn(c.b.index + 3),
      c |-> AdviceColumn(c.c.index + 3),
      selector |-> SelectorHandle(c.selector.selector + 1),
      instance |-> InstanceColumn(c.instance.index + 1) ]
GateOver(c) ==
    [ name |-> "multiplication",
      polys |-> << <<"Product", <<"Selector", c.selector>>,
                     <<"Sum", <<"Product", <<"Advice", c.a, 0>>, <<"Advice", c.b, 0>> >>,
                              <<"Negated", <<"Advice", c.c, 0>> >> >> >> >>,
      queried_selectors |-> <<c.selector>>,
      queried_cells |-> << <<c.a, 0>>, <<c.b, 0>>, <<c.c, 0>> >> ]

\* C3 as stated (idempotence of configure): the configuration and the gate of
\* a second configure call on the same builder are identical to those of the
\* first call.
C3_Idempotent ==
    Len(configs) >= 2 =>
        /\ configs[2] = configs[1]
        /\ meta.gates[Len(meta.gates)] = meta.gates[Len(meta.gates) - 1]

\* C3 as amended: every further configure call on the same builder allocates
\* another, disjoint layout of the same shape: every handle of the later
\* configuration is the earlier one's with its index advanced (advice by 3,
\* selector and instance by 1), the builder holds one more gate of the same
\* polynomial over the new handles, and the two configurations differ.
C3_SameShapeShifted ==
    /\ Len(meta.gates) = Len(configs)
    /\ \A i \in 1 .. Len(configs) : meta.gates[i] = GateOver(configs[i])
    /\ \A i \in 1 .. Len(configs) - 1 :
         /\ configs[i + 1] = ShiftConfig(configs[i])
         /\ configs[i + 1] # configs[i]
    /\ configs # <<>> =>
         /\ meta.num_advice_columns = configs[1].a.index + 3 * Len(configs)
         /\ meta.num_selectors = configs[1].selector.selector + Len(configs)
         /\ meta.num_instance_columns = configs[1].instance.index + Len(configs)

C3_Witness ==
    /\ pc = "builder"
    /\ Len(configs) = 2
    /\ Len(meta.gates) = 2

\* C4: once synthesize has completed successfully there is exactly one
\* binding to the instance column; it is at instance row 0 and binds the
\* column-c cell that assign returned (not the a or b cell); and in no state
\* is any other instance row bound.
C4_SingleBinding ==
    /\ \A i \in 1 .. Len(layouter.copies) :
         /\ layouter.copies[i].right_column = configs[1].instance
         /\ layouter.copies[i].right_row = 0
    /\ Synthesized =>
         /\ synth_result = "Ok"
         /\ Len(layouter.copies) = 1
         /\ layouter.copies[1].left_column = c_cell[1].cell.column
         /\ layouter.copies[1].left_row =
               layouter.regions[c_cell[1].cell.region_index + 1].start
               + c_cell[1].cell.row_offset
         /\ c_cell[1].cell.column = configs[1].c
         /\ c_cell[1].cell.column \notin {configs[1].a, configs[1].b}
         /\ layouter.advice[configs[1].c.index][layouter.copies[1].left_row]
            = Assigned(ProductOf(circuit))

C4_Witness ==
    /\ pc = "constructed"
    /\ synth_result = "Ok"
    /\ Len(layouter.copies) = 1
    /\ circuit.a # FZero
    /\ circuit.b # FZero

StepOrder == <<"construct", "assign", "expose_public">>

\* C5: the steps of a synthesize call are a prefix of construct, assign,
\* expose_public; every step but the last one executed succeeded; synthesize
\* returns Ok only after all three succeeded and returns the error of the
\* step that failed otherwise, after which nothing more is executed.
C5_StepsPrefix ==
    /\ Len(steps) <= Len(StepOrder)
    /\ \A i \in 1 .. Len(steps) : steps[i].op = StepOrder[i]
    /\ \A i \in 1 .. Len(steps) - 1 : steps[i].outcome = "Ok"
    /\ synth_result = "Ok" <=>
          /\ Len(steps) = Len(StepOrder)
          /\ \A i \in 1 .. Len(steps) : steps[i].outcome = "Ok"
    /\ synth_result \notin {"", "Ok"} =>
          /\ pc = "failed"
          /\ steps[Len(steps)].outcome = synth_result
          /\ result = synth_result
    /\ (Len(steps) >= 1 /\ steps[Len(steps)].outcome # "Ok") =>
          /\ synth_result = steps[Len(steps)].outcome
          /\ pc = "failed"

C5_Witness ==
    /\ pc = "failed"
    /\ faults = {"assign_region"}
    /\ Len(steps) = 2
    /\ steps[2] = Step("assign", "Synthesis")
    /\ synth_result = "Synthesis"

\* C6: the circuit without_witnesses() returns has a = b = 0 of the field
\* whatever the a and b of the circuit it was called on, so any two circuits
\* yield the same result.
C6_WithoutWitnessesZero ==
    stripped =>
        /\ circuit = [a |-> FZero, b |-> FZero]
        /\ \A other \in [a : F, b : F] : without_witnesses(other) = circuit

C6_Witness ==
    /\ stripped
    /\ witness.a # FZero
    /\ witness.b # FZero
    /\ circuit # witness

\* The rows the circuit itself assigns.
RowsUsed == ShapeRowCount(AssignOps(configure(DefaultCS).config, FZero, FZero))

\* C7 as stated: the run is constructed whenever 2^k rows hold the rows the
\* circuit uses, and fails with an error otherwise.
C7_RowsUsedSuffice ==
    pc # "start" =>
        /\ Pow2(k) >= RowsUsed => pc # "failed"
        /\ Pow2(k) < RowsUsed => pc = "failed"

\* C7 as amended: the run is constructed exactly when 2^k is at least the
\* constraint system's minimum row count, which adds the rows the framework
\* reserves to the row the circuit uses (8 rows here, so k >= 3, as k = 4 is);
\* otherwise MockProver::run returns NotEnoughRowsAvailable before anything is
\* synthesized and nothing is reported satisfied or unsatisfied.
C7_MinimumRows ==
    /\ RowsUsed = 1
    /\ pc # "start" =>
        /\ minimum_rows(meta) = 8
        /\ (Pow2(k) >= minimum_rows(meta)) <=> (pc # "failed")
        /\ (k >= 3) <=> (pc # "failed")
        /\ pc = "failed" =>
             /\ result = "NotEnoughRowsAvailable"
             /\ steps = <<>>
             /\ failures = {}
        /\ k = ExampleK => pc # "failed"
        /\ Synthesized => layouter.usable_rows >= RowsUsed

C7_Witness ==
    /\ pc = "failed"
    /\ k = 2
    /\ result = "NotEnoughRowsAvailable"

\* C8: after assign succeeded the selector is enabled on exactly one row, row
\* 0 of the first region; that row holds a, b and a*b (in the field) in columns
\* a, b, c; the returned cell is the column-c cell of that row; and every
\* selector-enabled row satisfies selector * (a*b - c) = 0.
C8_AssignRow ==
    AfterAssign =>
        /\ EnabledRows(layouter) = {<<configs[1].selector.selector, 0>>}
        /\ Len(layouter.regions) = 1
        /\ layouter.regions[1].start = 0
        /\ layouter.advice[configs[1].a.index][0] = Assigned(circuit.a)
        /\ layouter.advice[configs[1].b.index][0] = Assigned(circuit.b)
        /\ layouter.advice[configs[1].c.index][0] = Assigned(ProductOf(circuit))
        /\ c_cell = << [ value |-> ProductOf(circuit),
                         cell |-> [ region_index |-> 0, row_offset |-> 0,
                                    column |-> configs[1].c ] ] >>
        /\ \A er \in EnabledRows(layouter) :
             /\ Eval(meta.gates[1].polys[1], layouter, er[2]) = Real(FZero)
             /\ LET va == layouter.advice[configs[1].a.index][er[2]]
                    vb == layouter.advice[configs[1].b.index][er[2]]
                    vc == layouter.advice[configs[1].c.index][er[2]]
                IN FAdd(FMul(va[2], vb[2]), FNeg(vc[2])) = FZero

C8_Witness ==
    /\ pc = "expose"
    /\ ~stripped
    /\ circuit = [a |-> FromU64(3), b |-> FromU64(4)]
    /\ layouter.advice[2][0] = Assigned(FromU64(12))

ExpectedConfig ==
    [ a |-> AdviceColumn(0), b |-> AdviceColumn(1), c |-> AdviceColumn(2),
      selector |-> SelectorHandle(0), instance |-> InstanceColumn(0) ]

\* C9: after the one configure call of a run the builder holds three advice
\* columns, one instance column and one selector more than before, equality
\* is enabled on a, b, c and instance, and one gate with the single polynomial
\* selector * (a*b - c) at the current row is registered; the five handles
\* are pairwise distinct and stay what they are through assign and
\* expose_public.
C9_ConfigureLayout ==
    pc # "start" =>
        /\ meta.num_advice_columns = DefaultCS.num_advice_columns + 3
        /\ meta.num_instance_columns = DefaultCS.num_instance_columns + 1
        /\ meta.num_selectors = DefaultCS.num_selectors + 1
        /\ configs = <<ExpectedConfig>>
        /\ meta.permutation =
              <<configs[1].a, configs[1].b, configs[1].c, configs[1].instance>>
        /\ meta.gates = <<GateOver(configs[1])>>
        /\ Cardinality({configs[1].a, configs[1].b, configs[1].c,
                        configs[1].selector, configs[1].instance}) = 5
        /\ chip # <<>> => chip[1].config = configs[1]
        /\ pc # "failed" => layouter.cs = meta

C9_Witness ==
    /\ pc = "verified"
    /\ configs = <<ExpectedConfig>>
    /\ Len(layouter.copies) = 1
    /\ Len(meta.gates) = 1

\* The layout a layouter holds: which rows have a selector enabled, which
\* cells are assigned, the regions and the bindings - no cell value.
Shape(lay) ==
    [ enabled |-> EnabledRows(lay),
      cells |-> AssignedCells(lay),
      regions |-> lay.regions,
      columns |-> lay.columns,
      copies |-> lay.copies ]

\* MultiplicationCircuit::synthesize as one function of the layouter.
synthesize(lay, config, self) ==
    LET chp == construct(config)
        r == assign(lay, chp.config, self.a, self.b)
    IN IF ~r.ok THEN r ELSE expose_public(r.lay, chp.config, r.cell[1], 0)

\* C10 (witness-independent layout): in every run, whatever its witness pair,
\* the layout held after assign, and after synthesize, is the layout that
\* assign, or synthesize, produces on the same fresh tables for the zero pair
\* of without_witnesses and for the caller's own pair; all runs sharing the
\* zero pair's layout, any two witness pairs produce the same layout.
C10_SameShape ==
    LET fresh == NewLayouter(k, meta, <<public_inputs>>, faults)
        others == {without_witnesses(circuit), witness}
    IN /\ pc = "expose" =>
            \A other \in others :
               LET r == assign(fresh, configs[1], other.a, other.b)
               IN r.ok /\ Shape(r.lay) = Shape(layouter)
       /\ Synthesized =>
            \A other \in others :
               LET r == synthesize(fresh, configs[1], other)
               IN r.ok /\ Shape(r.lay) = Shape(layouter)

C10_Witness ==
    /\ pc = "constructed"
    /\ stripped
    /\ witness.a # FZero
    /\ witness.b # FZero
    /\ Shape(layouter) = Shape(synthesize(NewLayouter(k, meta, <<public_inputs>>, faults),
                                          configs[1], witness).lay)
    /\ layouter.advice # synthesize(NewLayouter(k, meta, <<public_inputs>>, faults),
                                    configs[1], witness).lay.advice

=============================================================================
